---- MODULE Spec2Model ----
(***************************************************************************)
(* A model of SessionContext (packages/apputils/src/sessioncontext.tsx):   *)
(* the session/kernel lifecycle manager, its asynchronous operations, the  *)
(* session connections it attaches to, and the kernel selection resolver.  *)
(*                                                                         *)
(* Every asynchronous operation is a task; a task's pc names the await at  *)
(* which it is suspended.  One action runs a continuation from one await   *)
(* to the next, with every synchronous call it makes on the way.           *)
(***************************************************************************)
EXTENDS Integers, FiniteSets, Sequences, TLC

\* ---------------------------------------------------------------- bounds
MaxTasks == 2
MaxConns == 3
MaxChanges == 1
MaxSpecs == 3
MaxDisposeCalls == 2

Tasks == 1..MaxTasks
ConnIds == 1..MaxConns

\* ------------------------------------------------------------- constants
\* `null` for the session field and for a captured connection.
NoConn == 0
\* A missing name: null, undefined and '' are all falsy to the code.
NoName == ""
\* _dialog values: null, the error dialog of _handleSessionError, or the
\* selection dialog opened by task t (the value t).
NoDialog == 0
ErrDialog == -1

KernelNames == {"k1", "k2"}
Languages == {"python", "r"}
\* Kernel.Status as the code tests it: 'busy', 'dead', or any other value
\* ('unknown', 'starting', 'idle', ...), written "idle".
Statuses == {"idle", "busy", "dead"}
PropNames == {"path", "name", "type"}

\* The kernel identity given to startNew / session.changeKernel: a spec name,
\* or the id of an existing kernel.
ById == "byId"
Options == KernelNames \cup {ById}

VARIABLES
    m,                \* the SessionContext's private fields
    kernelPreference, \* _kernelPreference
    specs,            \* specsManager.specs
    resolved,         \* what a call of getDefaultKernel returned
    startOptions,     \* the kernel identity _startIfNecessary settled on
    selection,        \* the select node populateKernelSelect has filled
    conns,            \* the session connections the session manager has made
    tasks,            \* the asynchronous operations of the clients
    env,              \* the collaborators: session manager, error dialogs
    hist              \* what has been emitted and counted so far

vars ==
    <<m, kernelPreference, specs, resolved, startOptions, selection, conns,
      tasks, env, hist>>

\* ------------------------------------------------------ kernel resolver
\* KernelSpec.ISpecModels: `default` and `kernelspecs`.  kernelspecs is an
\* object; `for (let specName in specs.kernelspecs)` visits its keys in
\* their order, so it is a sequence of entries with distinct names.  A null
\* specs has present = FALSE.
NoSpecs == [present |-> FALSE, default |-> NoName, kernelspecs |-> << >>]

\* specsManager.specs of the lifecycle model: default k1, one spec per language.
Catalog ==
    [present |-> TRUE, default |-> "k1",
     kernelspecs |-> << [name |-> "k1", language |-> "python"],
                        [name |-> "k2", language |-> "r"] >>]

\* An IKernelPreference.  Optional booleans are "undef", "true" or "false";
\* optional strings are NoName when missing.
Pref(name, language, id, shouldStart, canStart, shutdownOnDispose, autoStartDefault) ==
    [name |-> name, language |-> language, id |-> id,
     shouldStart |-> shouldStart, canStart |-> canStart,
     shutdownOnDispose |-> shutdownOnDispose,
     autoStartDefault |-> autoStartDefault]

\* The entries of kernelspecs whose language is `language`, in order.
LanguageMatches(kernelspecs, language) ==
    SelectSeq(kernelspecs, LAMBDA e : e.language = language)

\* `autoStartDefault ? specs.default : null`: an unset autoStartDefault is
\* falsy.
DefaultName(sp, preference) ==
    IF preference.autoStartDefault = "true" THEN sp.default ELSE NoName

\* A faulty getDefaultKernel that forgets canStart.
getDefaultKernelNoCanStart(sp, preference) ==
    IF ~sp.present \/ preference.shouldStart = "false"
    THEN NoName
    ELSE LET defaultName == DefaultName(sp, preference)
             matches == LanguageMatches(sp.kernelspecs, preference.language)
         IN  IF preference.name = NoName /\ preference.language = NoName
             THEN defaultName
             ELSE IF \E i \in DOMAIN sp.kernelspecs :
                         sp.kernelspecs[i].name = preference.name
             THEN preference.name
             ELSE IF preference.language = NoName
             THEN defaultName
             ELSE IF Len(matches) = 1
             THEN matches[1].name
             ELSE defaultName

\* A faulty getDefaultKernel that takes the first language match.
getDefaultKernelFirstMatch(sp, preference) ==
    IF \/ ~sp.present
       \/ preference.shouldStart = "false"
       \/ preference.canStart = "false"
    THEN NoName
    ELSE LET defaultName == DefaultName(sp, preference)
             matches == LanguageMatches(sp.kernelspecs, preference.language)
         IN  IF preference.name = NoName /\ preference.language = NoName
             THEN defaultName
             ELSE IF \E i \in DOMAIN sp.kernelspecs :
                         sp.kernelspecs[i].name = preference.name
             THEN preference.name
             ELSE IF preference.language = NoName
             THEN defaultName
             ELSE IF Len(matches) >= 1
             THEN matches[1].name
             ELSE defaultName

\* A faulty getDefaultKernel that tries the language before the name.
getDefaultKernelLanguageFirst(sp, preference) ==
    IF \/ ~sp.present
       \/ preference.shouldStart = "false"
       \/ preference.canStart = "false"
    THEN NoName
    ELSE LET defaultName == DefaultName(sp, preference)
             matches == LanguageMatches(sp.kernelspecs, preference.language)
         IN  IF preference.name = NoName /\ preference.language = NoName
             THEN defaultName
             ELSE IF preference.language # NoName /\ Len(matches) = 1
             THEN matches[1].name
             ELSE IF \E i \in DOMAIN sp.kernelspecs :
                         sp.kernelspecs[i].name = preference.name
             THEN preference.name
             ELSE defaultName

\* Private.getDefaultKernel.
getDefaultKernel(sp, preference) ==
    IF \/ ~sp.present
       \/ preference.shouldStart = "false"
       \/ preference.canStart = "false"
    THEN NoName
    ELSE LET defaultName == DefaultName(sp, preference)
             matches == LanguageMatches(sp.kernelspecs, preference.language)
         IN  IF preference.name = NoName /\ preference.language = NoName
             THEN defaultName
             ELSE IF \E i \in DOMAIN sp.kernelspecs :
                         sp.kernelspecs[i].name = preference.name
             THEN preference.name
             ELSE IF preference.language = NoName
             THEN defaultName
             ELSE IF Len(matches) = 1
             THEN matches[1].name
             ELSE defaultName

\* ------------------------------------------------------ kernel selector
\* spec.display_name of the catalog's entries, by spec name.
DisplayNameOf ==
    [n \in {"k1", "k2", "k3", "k4"} |->
        CASE n = "k1" -> "Python" [] n = "k2" -> "R"
          [] n = "k3" -> "Bash" [] OTHER -> "Julia"]

\* The strings that localeCompare is given, in ascending order.
Collation ==
    <<"a", "a.ipynb", "b", "Bash", "c.ipynb", "dir/b.ipynb", "dir/d.ipynb",
      "Julia", "Python", "R">>

\* a.localeCompare(b) < 0 iff Rank(a) < Rank(b).
Rank(str) == CHOOSE i \in DOMAIN Collation : Collation[i] = str

\* displayNames[name]: undefined ("") for a name the catalog does not have.
displayNames(sp, name) ==
    IF \E i \in DOMAIN sp.kernelspecs : sp.kernelspecs[i].name = name
    THEN DisplayNameOf[name] ELSE NoName

\* languages[name]: undefined ("") for a name the catalog does not have.
languages(sp, name) ==
    IF \E i \in DOMAIN sp.kernelspecs : sp.kernelspecs[i].name = name
    THEN LET i == CHOOSE j \in DOMAIN sp.kernelspecs : sp.kernelspecs[j].name = name
         IN  sp.kernelspecs[i].language
    ELSE NoName

\* Array.prototype.sort with the comparator key[a] - key[b]: a stable
\* insertion of each element after the ones whose key is not greater.
RECURSIVE SortByKey(_, _)
SortByKey(q, key) ==
    IF q = << >> THEN << >>
    ELSE LET rest == SortByKey(SubSeq(q, 1, Len(q) - 1), key)
             x == q[Len(q)]
             before == SelectSeq(rest, LAMBDA y : key[y] <= key[x])
             after == SelectSeq(rest, LAMBDA y : key[y] > key[x])
         IN  before \o <<x>> \o after

\* The elements of a sequence.
Range(q) == {q[i] : i \in DOMAIN q}

\* session.kernel of a session model whose kernel is null.
NoKernel == [id |-> NoName, name |-> NoName]

\* populateKernelSelect gets past its first return with a list of sessions
\* one of which has no kernel: `session.kernel.name` / `session.kernel.id`
\* (lines 1249-1253) throws a TypeError.
ReadsNullKernel(sp, preference, sessions) ==
    /\ sp.present
    /\ preference.canStart # "false"
    /\ sessions # << >>
    /\ \E i \in DOMAIN sessions[1] : sessions[1][i].kernel = NoKernel

\* optionForNone(): the option 'No Kernel' with value 'null' in its own
\* group.
optionForNone ==
    [group |-> "Use No Kernel", text |-> "No Kernel", value |-> [kind |-> "null"]]

\* optionForName(name, displayName) inside optgroup `group`.
optionForName(group, name, displayName) ==
    [group |-> group, text |-> displayName,
     value |-> [kind |-> "name", name |-> name]]

\* The path without its trailing '/' characters.
RECURSIVE StripTrailingSlashes(_)
StripTrailingSlashes(path) ==
    IF Len(path) > 0 /\ SubSeq(path, Len(path), Len(path)) = "/"
    THEN StripTrailingSlashes(SubSeq(path, 1, Len(path) - 1))
    ELSE path

\* The position of the last '/' among the first i characters, 0 if none.
RECURSIVE LastSlash(_, _)
LastSlash(path, i) ==
    IF i = 0 THEN 0
    ELSE IF SubSeq(path, i, i) = "/" THEN i
    ELSE LastSlash(path, i - 1)

\* PathExt.basename(path): the last segment of the path.
basename(path) ==
    LET p == StripTrailingSlashes(path)
    IN  SubSeq(p, LastSlash(p, Len(p)) + 1, Len(p))

\* optionForSession(session, displayName) inside optgroup `group`: the
\* text is the session's name, or the last segment of its path when the
\* name is empty; the title is the four lines of the template literal.
optionForSession(group, session, displayName) ==
    LET sessionName == IF session.name # NoName THEN session.name
                       ELSE basename(session.path)
    IN  [group |-> group,
         text |-> sessionName,
         value |-> [kind |-> "id", id |-> session.kernel.id],
         title |-> "Path: " \o session.path \o "\n" \o
                   "Name: " \o sessionName \o "\n" \o
                   "Kernel Name: " \o displayName \o "\n" \o
                   "Kernel Id: " \o session.kernel.id]

\* The names of the preferred group before sorting: the preferred name if
\* the catalog has it, then the other entries of the preferred language,
\* and the default if there are none.
PreferredNames(sp, preference) ==
    LET byName == IF preference.name # NoName
                     /\ \E i \in DOMAIN sp.kernelspecs :
                            sp.kernelspecs[i].name = preference.name
                  THEN <<preference.name>> ELSE << >>
        byLanguage ==
            IF preference.language # NoName
            THEN SelectSeq(sp.kernelspecs,
                           LAMBDA e : /\ e.name # preference.name
                                      /\ e.language = preference.language)
            ELSE << >>
        found == byName \o [i \in DOMAIN byLanguage |-> byLanguage[i].name]
    IN  IF found = << >> THEN <<sp.default>> ELSE found

\* The keys of a sort by display name; one element is never compared.
DisplayKey(sp, names) ==
    [n \in Range(names) |->
        IF displayNames(sp, n) = NoName THEN 0 ELSE Rank(displayNames(sp, n))]

\* A faulty populateKernelSelect that lists the catalog although canStart
\* is false.
populateKernelSelectNoCanStart(sp, preference, sessions) ==
    [disabled |-> FALSE, selected |-> 1, threw |-> FALSE,
     options |-> [i \in DOMAIN sp.kernelspecs |->
                    optionForName("Start Preferred Kernel", sp.kernelspecs[i].name,
                                  displayNames(sp, sp.kernelspecs[i].name))]
                 \o <<optionForNone>>]

\* Private.populateKernelSelect(node, {specs, sessions, preference}): the
\* node's disabled flag, its options in document order, the index of the
\* selected one, and whether the call threw (the node then keeps what was
\* appended before).  sessions is <<list>> or << >> when the caller gave none.
populateKernelSelect(sp, preference, sessions) ==
    IF ~sp.present \/ preference.canStart = "false"
    THEN [disabled |-> TRUE, selected |-> 1, threw |-> FALSE,
          options |-> <<optionForNone>>]
    ELSE
    LET unsorted == PreferredNames(sp, preference)
        names == SortByKey(unsorted, DisplayKey(sp, unsorted))
        preferred ==
            [i \in DOMAIN names |->
                optionForName("Start Preferred Kernel", names[i],
                              displayNames(sp, names[i]))]
        rest == SelectSeq(sp.kernelspecs, LAMBDA e : e.name \notin Range(names))
        restNames == [i \in DOMAIN rest |-> rest[i].name]
        otherNames == SortByKey(restNames, DisplayKey(sp, restNames))
        other ==
            [i \in DOMAIN otherNames |->
                optionForName("Start Other Kernel", otherNames[i],
                              displayNames(sp, otherNames[i]))]
        kernels == preferred \o <<optionForNone>> \o other
        selected == IF preference.shouldStart = "false"
                    THEN Len(preferred) + 1 ELSE 1
    IN  IF sessions = << >>
        THEN [disabled |-> FALSE, selected |-> selected, threw |-> FALSE,
              options |-> kernels]
        ELSE IF ReadsNullKernel(sp, preference, sessions)
        THEN [disabled |-> FALSE, selected |-> selected, threw |-> TRUE,
              options |-> kernels]
        ELSE
        LET running == sessions[1]
            IsMatching(x) ==
                /\ preference.language # NoName
                /\ languages(sp, x.kernel.name) = preference.language
                /\ x.kernel.id # preference.id
            matchingSessions == SelectSeq(running, IsMatching)
            otherSessions ==
                SelectSeq(running,
                          LAMBDA x : ~IsMatching(x) /\ x.kernel.id # preference.id)
            byPath == [x \in Range(running) |-> Rank(x.path)]
            matching ==
                LET q == SortByKey(matchingSessions, byPath)
                IN  [i \in DOMAIN q |->
                        optionForSession("Use Kernel from Preferred Session", q[i],
                                         displayNames(sp, q[i].kernel.name))]
            others ==
                LET q == SortByKey(otherSessions, byPath)
                IN  [i \in DOMAIN q |->
                        optionForSession(
                            "Use Kernel from Other Session", q[i],
                            IF displayNames(sp, q[i].kernel.name) # NoName
                            THEN displayNames(sp, q[i].kernel.name)
                            ELSE q[i].kernel.name)]
        IN  [disabled |-> FALSE, selected |-> selected, threw |-> FALSE,
             options |-> kernels \o matching \o others]

\* The preferences the lifecycle model is run with.
PrefChoices ==
    { Pref(NoName, NoName, NoName, "undef", "undef", "undef", "undef"),
      Pref(NoName, NoName, NoName, "undef", "undef", "undef", "true"),
      Pref(NoName, NoName, NoName, "false", "undef", "true", "true"),
      Pref(NoName, NoName, NoName, "undef", "false", "undef", "true") }

\* ------------------------------------------------------------ the world
\* Handlers are functions from a world to a world; an action commits one.
World == [m |-> m, c |-> conns, t |-> tasks, e |-> env, h |-> hist]

Commit(w) ==
    /\ m' = w.m
    /\ conns' = w.c
    /\ tasks' = w.t
    /\ env' = w.e
    /\ hist' = w.h
    /\ UNCHANGED <<kernelPreference, specs, resolved, startOptions, selection>>

SameProps == [p \in PropNames |-> "a"]

AbsentConn ==
    [state |-> "absent", kernel |-> NoName, status |-> "idle",
     subscribed |-> FALSE, attached |-> FALSE, late |-> FALSE,
     props |-> SameProps]

\* A disposed connection: nothing of it is read again.
DisposedConn == [AbsentConn EXCEPT !.state = "disposed"]

\* What a caller of initialize() saw in this.session when its await
\* continued: <<s>>; nothing yet; a call made after _ready was resolved; or
\* a call made after initialize() had rejected.
Unset == << >>
Late == <<NoConn, NoConn>>
AfterFailure == <<NoConn, NoConn, NoConn>>

\* The ways an operation rejects.
Rejected == {"rejDisposed", "rejNoKernel", "rejError", "rejTypeError"}

\* What the restart confirmation returned to a restart() call: nothing yet;
\* the button pressed, and whether the kernel it was asked about had been
\* disposed by then.
NoAnswer == "none"
Answers == {"accept", "decline", "acceptGone", "declineGone"}

\* A task: the operation called (kind), the await it is suspended at (pc),
\* whether it runs initialize()'s start-up (ctx), its argument, the kernel
\* identity and the path, name and type it has given to the session manager
\* (opt, req), the connection it has captured (conn), the values of the
\* options of its selection dialog (offer), and what it has seen (obs,
\* answer).
IdleTask ==
    [kind |-> "none", pc |-> "idle", ctx |-> "explicit", arg |-> NoName,
     opt |-> NoName, req |-> SameProps, conn |-> NoConn, offer |-> {},
     obs |-> Unset, answer |-> NoAnswer]

\* getDefaultKernel has not been called / has returned r: <<r>>.
NotResolved == << >>

\* _startIfNecessary has not chosen its options / has chosen o: <<o>>.
NoOptions == << >>

\* populateKernelSelect has not been called / has filled the node n: <<n>>.
NoSelection == << >>

\* The manager, its collaborators and its clients after construction.
InitManager ==
    /\ m = [isDisposed |-> FALSE, session |-> NoConn, prevKernelName |-> NoName,
            initializing |-> FALSE, isReady |-> FALSE, ready |-> "pending",
            props |-> SameProps, dialog |-> NoDialog, busyDisposable |-> FALSE]
    /\ conns = [c \in ConnIds |-> AbsentConn]
    /\ tasks = [t \in Tasks |-> IdleTask]
    /\ env = [mgrReady |-> FALSE, nextConn |-> 1, errText |-> 0, errOpening |-> 0,
              errDialog |-> 0, errClosing |-> 0, renames |-> 0, prefSets |-> 0,
              shutdownReq |-> "none"]
    /\ hist = [initRuns |-> 0, initCreated |-> 0, readySettles |-> 0,
               stale |-> FALSE, attachOld |-> NoName, replaced |-> FALSE,
               disposedEmits |-> 0, disposeReleases |-> 0, disposeCalls |-> 0,
               heldAtDispose |-> FALSE,
               \* emissions of _sessionChanged: the source has none
               sessionChangedEmits |-> 0,
               \* the properties propertyChanged was emitted for by the last
               \* attach or rename
               propEmits |-> {}]

Init ==
    /\ InitManager
    /\ kernelPreference \in PrefChoices
    /\ specs = Catalog
    /\ resolved = NotResolved
    /\ startOptions = NoOptions
    /\ selection = NoSelection

\* ------------------------------------------------- session connections
\* The kernel connection captured by a pending restart confirmation on
\* connection s is disposed: kernel.isDisposed will read true.
KernelGone(w, s) ==
    [w EXCEPT !.t = [t \in Tasks |->
        IF w.t[t].pc = "confirm" /\ w.t[t].conn = s
        THEN [w.t[t] EXCEPT !.conn = NoConn] ELSE w.t[t]]]

\* An event of connection s reaches a slot of the manager.
Delivered(w, s) ==
    [w EXCEPT !.h.stale = @ \/ (w.m.session # s)]

RECURSIVE SessionDispose(_, _)
RECURSIVE onSessionDisposed(_)

\* _onSessionDisposed: dispose the current session, forget it, emit terminated.
onSessionDisposed(w) ==
    LET cur == w.m.session
        w1 == IF cur # NoConn THEN SessionDispose(w, cur) ELSE w
    IN  [w1 EXCEPT !.m.session = NoConn]

\* ISessionConnection.dispose(): idempotent; emits `disposed` to the slots
\* still connected, then drops every connection of its signals.
SessionDispose(w, s) ==
    IF w.c[s].state # "live" THEN w
    ELSE LET w1 == KernelGone([w EXCEPT !.c[s].state = "disposed"], s)
             w2 == IF w1.c[s].subscribed
                   THEN onSessionDisposed(Delivered(w1, s))
                   ELSE w1
         IN  [w2 EXCEPT !.c[s] = DisposedConn]

\* A faulty _onPropertyChanged that emits without copying the property.
onPropertyChangedEmitOnly(w, s, p) ==
    [w EXCEPT !.h.propEmits = @ \cup {p}]

\* _onPropertyChanged: copy the sender's property, emit propertyChanged.
onPropertyChanged(w, s, p) ==
    [w EXCEPT !.m.props[p] = w.c[s].props[p],
              !.h.propEmits = @ \cup {p}]

\* _onStatusChanged with a setBusy factory: take the lease on 'busy', give it
\* back on any other status, then proxy the signal.
onStatusChanged(w, status) ==
    IF status = "busy"
    THEN [w EXCEPT !.m.busyDisposable = TRUE]
    ELSE [w EXCEPT !.m.busyDisposable = FALSE]

\* _onKernelChanged: proxy the signal, nothing else.
onKernelChanged(w, old, new) == w

\* The guard at the head of _handleNewSession: throw Error('Disposed').
HandleNewSessionNeverThrows(w) == FALSE

HandleNewSessionThrows(w) == w.m.isDisposed

\* A faulty _handleNewSession that does not dispose the session it replaces.
HandleNewSessionKeepOld(w, s) ==
    LET w2 == [w EXCEPT !.m.session = s,
                        !.m.prevKernelName = w.c[s].kernel,
                        !.c[s].subscribed = TRUE,
                        !.c[s].attached = TRUE]
    IN  [w2 EXCEPT !.m.props = w2.c[s].props,
                   !.h.attachOld = NoName,
                   !.h.replaced = @ \/ (w.m.session # NoConn)]

\* _handleNewSession past its guard: dispose the old session, take the new
\* one, record its kernel name, connect the seven slots, re-emit the
\* properties that differ, emit kernelChanged with oldValue null.
HandleNewSession(w, s) ==
    LET old == w.m.session
        w1 == IF old # NoConn THEN SessionDispose(w, old) ELSE w
        w2 == [w1 EXCEPT !.m.session = s,
                         !.m.prevKernelName = w1.c[s].kernel,
                         !.c[s].subscribed = TRUE,
                         !.c[s].attached = TRUE,
                         !.h.propEmits = {}]
        w3 == IF w2.c[s].props["path"] # w2.m.props["path"]
              THEN onPropertyChanged(w2, s, "path") ELSE w2
        w4 == IF w3.c[s].props["name"] # w3.m.props["name"]
              THEN onPropertyChanged(w3, s, "name") ELSE w3
        w5 == IF w4.c[s].props["type"] # w4.m.props["type"]
              THEN onPropertyChanged(w4, s, "type") ELSE w4
    IN  [w5 EXCEPT !.h.attachOld = NoName,
                   !.h.replaced = @ \/ (w.m.session # NoConn)]

\* sessionManager.connectTo / startNew returning a connection object.
NewConn(w, kernel, props) ==
    [w EXCEPT !.c[w.e.nextConn] =
                  [state |-> "live", kernel |-> kernel, status |-> "idle",
                   subscribed |-> FALSE, attached |-> FALSE,
                   late |-> w.m.isDisposed, props |-> props],
              !.e.nextConn = @ + 1]

\* _handleSessionError with a ServerConnection.ResponseError: suspended at
\* `await err.response.text()`.  With any other error the first line throws
\* and nothing happens.
HandleSessionError(w, isResponseError) ==
    IF isResponseError THEN [w EXCEPT !.e.errText = @ + 1] ELSE w

\* ------------------------------------------------------ task plumbing
\* Task t's async function rejects with `code`.  A task in the "init"
\* context is the one running initialize()'s start-up sequence: its
\* rejection is initialize()'s, and _ready is left as it was.
Fail(w, t, code) ==
    [w EXCEPT !.t[t] = [@ EXCEPT !.pc = code, !.conn = NoConn, !.opt = NoName,
                                 !.req = SameProps, !.offer = {}]]

\* The operation task t is in returns.  For the task running the start-up
\* sequence _startIfNecessary has returned: initialize() is suspended at the
\* `await` of line 581 and goes on in a later microtask ("settle").  For a
\* task in its explicit operation it is a plain return.
FinishOk(w, t) ==
    IF w.t[t].ctx = "init"
    THEN [w EXCEPT !.t[t] = [@ EXCEPT !.pc = "settle",
                                      !.conn = NoConn, !.opt = NoName,
                                      !.req = SameProps, !.offer = {}]]
    ELSE [w EXCEPT !.t[t] = [@ EXCEPT
                   !.pc = IF w.t[t].kind = "restartCK" THEN "doneTrue" ELSE "done",
                   !.conn = NoConn, !.opt = NoName,
                   !.req = SameProps, !.offer = {}]]

\* initialize() lines 582-583: _isReady = true, _ready.resolve().  The
\* caller's `await this.initialize()` then continues like any waiter's.
SettleReady(w, t) ==
    [w EXCEPT !.m.isReady = TRUE,
              !.m.ready = "resolved",
              !.h.readySettles = @ + 1,
              !.t[t] = [@ EXCEPT !.pc = "awaitReady", !.ctx = "explicit"]]

\* sessionManager.running() as the kernel selector reads it: the models
\* of the sessions behind the live connections, in the order they were
\* made, each with the path and name its connection has.
RunningSessions(w) ==
    LET ids == SelectSeq([i \in 1..MaxConns |-> i],
                         LAMBDA s : w.c[s].state = "live")
    IN  [i \in DOMAIN ids |->
            [path |-> w.c[ids[i]].props["path"],
             name |-> w.c[ids[i]].props["name"],
             kernel |-> IF w.c[ids[i]].kernel = NoName THEN NoKernel
                        ELSE [id |-> "kx", name |-> w.c[ids[i]].kernel]]]

\* KernelSelector.getValue(): JSON.parse of the value of one of the options
\* the selector was filled with when the dialog was made: null (NoName),
\* { name }, or { id } for the kernel of a running session (ById).
DialogValues(w) ==
    LET opts == populateKernelSelect(specs, kernelPreference,
                                     <<RunningSessions(w)>>).options
    IN  {IF opts[i].value.kind = "name" THEN opts[i].value.name
         ELSE IF opts[i].value.kind = "id" THEN ById
         ELSE NoName : i \in DOMAIN opts}

\* `new Private.KernelSelector(this)` throws a TypeError.
KernelSelectorThrows(w) ==
    ReadsNullKernel(specs, kernelPreference, <<RunningSessions(w)>>)

\* What _changeKernel does first: throw Error('Disposed'); throw a TypeError
\* on `session.kernel.status` when the session has no kernel; swap the
\* kernel in place; or go to _startSession.
ChangeKernelOutcome(w) ==
    LET s == w.m.session
    IN  IF w.m.isDisposed THEN "disposed"
        ELSE IF s # NoConn /\ w.c[s].kernel = NoName THEN "typeError"
        ELSE IF s # NoConn /\ w.c[s].status # "dead" THEN "swap"
        ELSE "start"

\* _startSession up to `await this.sessionManager.startNew(...)`: the
\* request carries the path, name and type the manager has now.
StartSession(w, t, pc, options) ==
    [w EXCEPT !.t[t] = [@ EXCEPT !.pc = pc, !.opt = options, !.req = w.m.props]]

\* _changeKernel(options) up to its first await, called outside a try.
ChangeKernel(w, t, options) ==
    LET out == ChangeKernelOutcome(w)
    IN  IF out = "disposed" THEN Fail(w, t, "rejDisposed")
        ELSE IF out = "typeError" THEN Fail(w, t, "rejTypeError")
        ELSE IF out = "swap"
        THEN [w EXCEPT !.t[t] = [@ EXCEPT !.pc = "swap", !.conn = w.m.session,
                                          !.opt = options]]
        ELSE StartSession(w, t, "startNew", options)

\* _selectKernel up to `await dialog.launch()`.  Building the dialog's
\* body fills the kernel selector; when that throws, no dialog is made and
\* _dialog is left as it was.
SelectKernel(w, t) ==
    IF w.m.isDisposed THEN FinishOk(w, t)
    ELSE IF KernelSelectorThrows(w) THEN Fail(w, t, "rejTypeError")
    ELSE [w EXCEPT !.m.dialog = t,
                   !.t[t] = [@ EXCEPT !.pc = "dialog", !.opt = NoName,
                                      !.offer = DialogValues(w)]]

\* A faulty _startIfNecessary that does not look at shouldStart / canStart.
StartIfNecessaryIgnorePref(w, t) ==
    LET s == w.m.session
        preference == kernelPreference
        opts == IF preference.id # NoName THEN ById
                ELSE DefaultName(specs, preference)
    IN  IF \/ w.m.isDisposed
           \/ (s # NoConn /\ w.c[s].kernel # NoName)
        THEN FinishOk(w, t)
        ELSE IF opts # NoName
        THEN IF ChangeKernelOutcome(w) = "start"
             THEN StartSession(w, t, "startAuto", opts)
             ELSE [w EXCEPT !.t[t].pc = "fallback"]
        ELSE SelectKernel(w, t)

\* _startIfNecessary's choice of the kernel to start: { id: preference.id },
\* else { name } from getDefaultKernel, else nothing.
StartOptions(sp, preference) ==
    IF preference.id # NoName THEN ById
    ELSE getDefaultKernel(sp, preference)

\* _startIfNecessary up to its first await, or to its return when there is
\* nothing to start.  With options it awaits _changeKernel inside a try:
\* past the tests above the manager is not disposed and has no session with
\* a kernel, so _changeKernel goes to _startSession, or throws on a session
\* without a kernel, and the empty catch runs in a later microtask
\* ("fallback").  Without options _selectKernel is called at once.
StartIfNecessary(w, t) ==
    LET s == w.m.session
        preference == kernelPreference
        opts == StartOptions(specs, preference)
    IN  IF \/ w.m.isDisposed
           \/ (s # NoConn /\ w.c[s].kernel # NoName)
           \/ preference.shouldStart = "false"
           \/ preference.canStart = "false"
        THEN FinishOk(w, t)
        ELSE IF opts # NoName
        THEN IF ChangeKernelOutcome(w) = "start"
             THEN StartSession(w, t, "startAuto", opts)
             ELSE [w EXCEPT !.t[t].pc = "fallback"]
        ELSE SelectKernel(w, t)

\* A faulty initialize() without the `_initializing || _isReady` test.
InitializeEntryNoGuard(w, t) ==
    [w EXCEPT !.m.initializing = TRUE,
              !.h.initRuns = @ + 1,
              !.t[t] = [@ EXCEPT !.pc = "awaitMgr", !.ctx = "init"]]

\* initialize() up to its first await: join the pending start-up, or begin it.
InitializeEntry(w, t) ==
    IF w.m.initializing \/ w.m.isReady
    THEN [w EXCEPT !.t[t] = [@ EXCEPT !.pc = "awaitReady",
                   !.obs = IF w.m.ready = "resolved" THEN Late
                           ELSE IF \E u \in Tasks : /\ w.t[u].ctx = "init"
                                                    /\ w.t[u].pc \in Rejected
                           THEN AfterFailure
                           ELSE Unset]]
    ELSE [w EXCEPT !.m.initializing = TRUE,
                   !.h.initRuns = @ + 1,
                   !.t[t] = [@ EXCEPT !.pc = "awaitMgr", !.ctx = "init"]]

\* A faulty `await this.initialize()` that does not wait.
AwaitInitializeNoWait(w) == TRUE

\* `await this.initialize()` of a waiter continues once _ready is resolved.
AwaitInitialize(w) == w.m.ready = "resolved"

\* A continuation of a settled promise is waiting in the microtask queue:
\* no timer, network or user event is handled before it has run.  Client
\* code can still run (in a continuation of its own, or right after the
\* call that settled the promise).
Drain ==
    \/ \E t \in Tasks : tasks[t].pc = "awaitReady" /\ AwaitInitialize(World)
    \/ \E t \in Tasks : tasks[t].pc \in {"settle", "dismissed", "fallback"}
    \/ \E t \in Tasks : tasks[t].pc = "awaitMgr" /\ env.mgrReady
    \/ env.errOpening > 0
    \/ env.errClosing > 0

\* The microtask queue is first in, first out.  err.response.text() settles
\* when no continuation is waiting, so the rest of _handleSessionError is
\* at the head of the queue: it runs before every continuation that a call
\* made after the settlement has queued behind it.
BehindErrText == env.errOpening > 0

\* A faulty restart() that does not test _prevKernelName.
RestartAnyName(w, t) ==
    LET s == w.m.session
    IN  IF w.m.isDisposed THEN Fail(w, t, "rejDisposed")
        ELSE IF s # NoConn /\ w.c[s].kernel # NoName
        THEN [w EXCEPT !.t[t] = [@ EXCEPT !.pc = "confirm", !.conn = s]]
        ELSE InitializeEntry(
                 [w EXCEPT !.t[t] = [@ EXCEPT !.kind = "restartCK",
                                              !.arg = w.m.prevKernelName]], t)

\* restart() after `await this.initialize()`.
Restart(w, t) ==
    LET s == w.m.session
    IN  IF w.m.isDisposed THEN Fail(w, t, "rejDisposed")
        ELSE IF s # NoConn /\ w.c[s].kernel # NoName
        THEN [w EXCEPT !.t[t] = [@ EXCEPT !.pc = "confirm", !.conn = s]]
        ELSE IF w.m.prevKernelName # NoName
        THEN InitializeEntry(
                 [w EXCEPT !.t[t] = [@ EXCEPT !.kind = "restartCK",
                                              !.arg = w.m.prevKernelName]], t)
        ELSE Fail(w, t, "rejNoKernel")

\* The caller's code after `await this.initialize()`.
Continue(w, t) ==
    LET k == w.t[t].kind
    IN  IF k = "initialize" THEN [w EXCEPT !.t[t].pc = "done"]
        ELSE IF k = "restart" THEN Restart(w, t)
        ELSE IF w.m.isDisposed THEN Fail(w, t, "rejDisposed")
        ELSE IF k = "selectKernel" THEN SelectKernel(w, t)
        ELSE ChangeKernel(w, t, w.t[t].arg)

\* ------------------------------------------------------------ dispose
\* Dialog.dispose() of the dialog held in _dialog.  Its pending launch()
\* either rejects or resolves as dismissed (`how`); the code after the
\* `await dialog.launch()` runs in a later microtask.
DialogDispose(w, how) ==
    LET d == w.m.dialog
    IN  IF d = ErrDialog /\ w.e.errDialog > 0
        THEN IF how = "reject"
             THEN [w EXCEPT !.e.errDialog = @ - 1]
             ELSE [w EXCEPT !.e.errDialog = @ - 1, !.e.errClosing = @ + 1]
        ELSE IF d \in Tasks /\ w.t[d].pc = "dialog"
        THEN IF how = "reject"
             THEN Fail(w, d, "rejError")
             ELSE [w EXCEPT !.t[d].pc = "dismissed"]
        ELSE w

\* Signal.clearData(this): no signal is connected to the manager any more.
ClearData(w) ==
    [w EXCEPT !.c = [s \in ConnIds |-> [w.c[s] EXCEPT !.subscribed = FALSE]]]

\* A faulty dispose() without the `_isDisposed` test.
DisposeBodyNoGuard(w, how) ==
    LET w0 == [w EXCEPT !.m.isDisposed = TRUE]
        w3 == [w0 EXCEPT !.m.busyDisposable = FALSE,
                         !.h.disposeReleases = @ + 1]
    IN  ClearData([w3 EXCEPT !.h.disposedEmits = @ + 1])

\* dispose()'s `this._session.shutdown().catch(...)`: fire and forget.  The
\* request is taken by a live connection and refused by a disposed one;
\* either way the promise's rejection is caught and logged.
ShutdownOnDispose(w, s) ==
    [w EXCEPT !.e.shutdownReq =
        IF w.c[s].state = "live" THEN "pending" ELSE "refused"]

\* A faulty dispose() that asks for the shutdown after disposing the session.
DisposeBodyShutdownLate(w, how) ==
    IF w.m.isDisposed THEN w
    ELSE LET s == w.m.session
             w0 == [w EXCEPT !.m.isDisposed = TRUE,
                             !.h.heldAtDispose = w.m.busyDisposable]
             wd == IF s # NoConn THEN SessionDispose(w0, s) ELSE w0
             w1 == IF s # NoConn
                   THEN [ShutdownOnDispose(wd, s) EXCEPT !.m.session = NoConn]
                   ELSE wd
             w3 == IF w1.m.busyDisposable
                   THEN [w1 EXCEPT !.m.busyDisposable = FALSE,
                                   !.h.disposeReleases = @ + 1]
                   ELSE w1
         IN  ClearData([w3 EXCEPT !.h.disposedEmits = @ + 1])

\* dispose().
DisposeBody(w, how) ==
    IF w.m.isDisposed THEN w
    ELSE LET s == w.m.session
             w0 == [w EXCEPT !.m.isDisposed = TRUE,
                             !.h.heldAtDispose = w.m.busyDisposable]
             ws == IF s # NoConn /\ kernelPreference.shutdownOnDispose = "true"
                   THEN ShutdownOnDispose(w0, s)
                   ELSE w0
             w1 == IF s # NoConn
                   THEN [SessionDispose(ws, s) EXCEPT !.m.session = NoConn]
                   ELSE ws
             w2 == IF w1.m.dialog # NoDialog THEN DialogDispose(w1, how) ELSE w1
             w3 == IF w2.m.busyDisposable
                   THEN [w2 EXCEPT !.m.busyDisposable = FALSE,
                                   !.h.disposeReleases = @ + 1]
                   ELSE w2
         IN  ClearData([w3 EXCEPT !.h.disposedEmits = @ + 1])

\* ------------------------------------------------------ client actions
\* A client can call at any time, also between two continuations.
Invoke(t, kind, arg) ==
    /\ tasks[t].pc = "idle"
    /\ \A u \in Tasks : u < t => tasks[u].pc # "idle"
    /\ Commit(InitializeEntry(
           [World EXCEPT !.t[t] = [@ EXCEPT !.kind = kind, !.arg = arg]], t))

CallInitialize(t) == Invoke(t, "initialize", NoName)

\* The kernel names clients call changeKernel({ name }) with: a kernel
\* other than the catalog's default.
ChangeKernelArgs == {"k2"}

CallChangeKernel(t, name) == Invoke(t, "changeKernel", name)

CallSelectKernel(t) == Invoke(t, "selectKernel", NoName)

CallRestart(t) == Invoke(t, "restart", NoName)

\* shutdown(): `return this._session?.shutdown()`.
CallShutdown(t) ==
    /\ tasks[t].pc = "idle"
    /\ \A u \in Tasks : u < t => tasks[u].pc # "idle"
    /\ Commit(IF m.session = NoConn
              THEN [World EXCEPT !.t[t] = [@ EXCEPT !.kind = "shutdown",
                                                    !.pc = "done"]]
              ELSE [World EXCEPT !.t[t] = [@ EXCEPT !.kind = "shutdown",
                                                    !.pc = "shutdown",
                                                    !.conn = m.session]])

\* The ways an open dialog can end when dispose() disposes it; without an
\* open dialog dispose() has one outcome.
DisposeWays ==
    IF m.dialog # NoDialog THEN {"reject", "dismiss"} ELSE {"dismiss"}

\* dispose(), counted up to MaxDisposeCalls calls.  A call on a disposed
\* manager returns at the isDisposed test and changes nothing: it is
\* recorded as one of the client's MaxTasks calls, which has returned.
CallDispose ==
    /\ hist.disposeCalls < MaxDisposeCalls
    /\ \E how \in DisposeWays :
          LET w1 == [DisposeBody(World, how) EXCEPT !.h.disposeCalls = @ + 1]
          IN  IF ~m.isDisposed
              THEN Commit(w1)
              ELSE \E t \in Tasks :
                      /\ tasks[t].pc = "idle"
                      /\ \A u \in Tasks : u < t => tasks[u].pc # "idle"
                      /\ Commit([w1 EXCEPT !.t[t] = [@ EXCEPT !.kind = "dispose",
                                                              !.pc = "done"]])

\* The preferences clients assign after construction: one that lets the
\* start-up start the default kernel, and one that forbids starting and
\* asks for a shutdown on dispose.
AssignedPrefs ==
    { Pref(NoName, NoName, NoName, "undef", "undef", "undef", "true"),
      Pref(NoName, NoName, NoName, "false", "undef", "true", "true") }

\* The changes made from outside so far: the preferences clients have
\* assigned and the renames connections have reported.
Changes == env.prefSets + env.renames

\* `ctx.kernelPreference = value`: the setter assigns _kernelPreference.
SetKernelPreference(value) ==
    /\ Changes < MaxChanges
    /\ value # kernelPreference
    /\ kernelPreference' = value
    /\ env' = [env EXCEPT !.prefSets = @ + 1]
    /\ UNCHANGED <<m, specs, resolved, startOptions, selection, conns, tasks,
                   hist>>

\* --------------------------------------------------- continuations
\* The code after `await this.initialize()`; the caller sees this.session.
Resume(t) ==
    /\ ~BehindErrText
    /\ tasks[t].pc = "awaitReady"
    /\ AwaitInitialize(World)
    /\ Commit(Continue(
           [World EXCEPT !.t[t].obs =
               IF @ = Unset THEN <<m.session>> ELSE @], t))

\* initialize() lines 582-583, after `await this._startIfNecessary()`.
InitSettle(t) ==
    /\ ~BehindErrText
    /\ tasks[t].pc = "settle"
    /\ Commit(SettleReady(World, t))

\* initialize() after `await manager.ready`: look for a running session on
\* this path (it has the manager's path, name and type), connect to it,
\* then _startIfNecessary up to its first await.
InitLookup(t) ==
    /\ ~BehindErrText
    /\ tasks[t].pc = "awaitMgr"
    /\ env.mgrReady
    /\ \E found \in {"none", "nokernel"} \cup KernelNames, ok \in BOOLEAN :
          IF found = "none"
          THEN /\ ok
               /\ Commit(StartIfNecessary(World, t))
          ELSE IF ~ok
          THEN Commit(Fail(HandleSessionError(World, TRUE), t, "rejError"))
          ELSE /\ env.nextConn <= MaxConns
               /\ LET s == env.nextConn
                      w1 == NewConn(World,
                                    IF found = "nokernel" THEN NoName ELSE found,
                                    m.props)
                  IN  Commit(IF HandleNewSessionThrows(w1)
                             THEN Fail(HandleSessionError(w1, FALSE), t, "rejDisposed")
                             ELSE StartIfNecessary(HandleNewSession(w1, s), t))

\* After a failed start: _startIfNecessary's `await this._changeKernel`
\* rejects and its empty catch runs in a later microtask ("fallback");
\* everywhere else the failure is rethrown.
AfterStartFailure(w, t, code) ==
    IF w.t[t].pc = "startAuto"
    THEN [w EXCEPT !.t[t] = [@ EXCEPT !.pc = "fallback", !.opt = NoName,
                                      !.req = SameProps]]
    ELSE Fail(w, t, code)

\* _startIfNecessary after its empty catch: `await this._selectKernel(false)`.
StartFallback(t) ==
    /\ ~BehindErrText
    /\ tasks[t].pc = "fallback"
    /\ Commit(SelectKernel(World, t))

\* _startSession after `await this.sessionManager.startNew(...)`.
StartResolve(t) ==
    /\ ~Drain
    /\ tasks[t].pc \in {"startAuto", "startNew"}
    /\ \E ok \in BOOLEAN, kn \in KernelNames :
          IF ~ok
          THEN /\ kn = "k1"
               /\ Commit(AfterStartFailure(HandleSessionError(World, TRUE), t,
                                           "rejError"))
          ELSE /\ env.nextConn <= MaxConns
               /\ (tasks[t].opt # ById => kn = tasks[t].opt)
               /\ LET s == env.nextConn
                      w1 == NewConn(World, kn, tasks[t].req)
                      w2 == [HandleNewSession(w1, s) EXCEPT !.h.initCreated =
                                IF tasks[t].ctx = "init" THEN @ + 1 ELSE @]
                  IN  Commit(IF HandleNewSessionThrows(w1)
                             THEN AfterStartFailure(HandleSessionError(w1, FALSE),
                                                    t, "rejDisposed")
                             ELSE FinishOk(w2, t))

\* _selectKernel after `await dialog.launch()`: result.button.accept is
\* `accept` and result.value is { name: value }, { id } for ById, or null
\* for NoName.
AfterDialog(w, t, accept, value) ==
    LET w1 == [w EXCEPT !.m.dialog = NoDialog, !.t[t].offer = {}]
    IN  IF w.m.isDisposed \/ ~accept
        THEN FinishOk(w1, t)
        ELSE IF value = NoName /\ w.m.session # NoConn
        THEN [w1 EXCEPT !.t[t] = [@ EXCEPT !.pc = "shutdown",
                                          !.conn = w.m.session]]
        ELSE IF value # NoName
        THEN ChangeKernel(w1, t, value)
        ELSE FinishOk(w1, t)

\* The dialog of _selectKernel is answered.
DialogResult(t) ==
    /\ ~Drain
    /\ tasks[t].pc = "dialog"
    /\ \E accept \in BOOLEAN, value \in tasks[t].offer :
          /\ (m.isDisposed \/ ~accept) => value = NoName
          /\ Commit(AfterDialog(World, t, accept, value))

\* _selectKernel after an `await dialog.launch()` that dispose() resolved
\* as dismissed.
DialogDismissed(t) ==
    /\ ~BehindErrText
    /\ tasks[t].pc = "dismissed"
    /\ Commit(AfterDialog(World, t, FALSE, NoName))

\* session.shutdown() settles; a session that was shut down disposes itself.
ShutdownResolve(t) ==
    /\ ~Drain
    /\ tasks[t].pc = "shutdown"
    /\ \E ok \in BOOLEAN :
          IF ok
          THEN Commit(FinishOk(SessionDispose(World, tasks[t].conn), t))
          ELSE Commit(Fail(World, t, "rejError"))

\* session.changeKernel(options) settles: the session has a new kernel and
\* says so on kernelChanged.  A rejection is not caught by _changeKernel's
\* try, which returns the promise without awaiting it.
SwapResolve(t) ==
    /\ ~Drain
    /\ tasks[t].pc = "swap"
    /\ \E ok \in BOOLEAN, kn \in KernelNames :
          LET s == tasks[t].conn
          IN  IF ok /\ conns[s].state = "live"
              THEN /\ (tasks[t].opt # ById => kn = tasks[t].opt)
                   /\ LET w1 == KernelGone([World EXCEPT !.c[s].kernel = kn], s)
                          w2 == IF conns[s].subscribed
                                THEN onKernelChanged(Delivered(w1, s),
                                                     conns[s].kernel, kn)
                                ELSE w1
                      IN  Commit(FinishOk(w2, t))
              ELSE /\ ~ok /\ kn = "k1"
                   /\ Commit(Fail(World, t, "rejError"))

\* A faulty restartKernel that does not test kernel.isDisposed.
RestartKernelNoDisposedTest(w, t, accept) ==
    LET gone == w.t[t].conn = NoConn
        w1 == [w EXCEPT !.t[t].answer =
                  IF accept THEN (IF gone THEN "acceptGone" ELSE "accept")
                  ELSE (IF gone THEN "declineGone" ELSE "decline")]
    IN  IF accept
        THEN [w1 EXCEPT !.t[t].pc = "restarting"]
        ELSE [w1 EXCEPT !.t[t] = [@ EXCEPT !.pc = "doneFalse", !.conn = NoConn]]

\* restartKernel from the return of showDialog to `await kernel.restart()`
\* or to its return of false.
RestartKernel(w, t, accept) ==
    LET gone == w.t[t].conn = NoConn
        w1 == [w EXCEPT !.t[t].answer =
                  IF accept THEN (IF gone THEN "acceptGone" ELSE "accept")
                  ELSE (IF gone THEN "declineGone" ELSE "decline")]
    IN  IF gone
        THEN [w1 EXCEPT !.t[t] = [@ EXCEPT !.pc = "doneFalse", !.conn = NoConn]]
        ELSE IF accept
        THEN [w1 EXCEPT !.t[t].pc = "restarting"]
        ELSE [w1 EXCEPT !.t[t] = [@ EXCEPT !.pc = "doneFalse", !.conn = NoConn]]

\* restartKernel after `await showDialog(...)`.
ConfirmResult(t) ==
    /\ ~Drain
    /\ tasks[t].pc = "confirm"
    /\ \E accept \in BOOLEAN : Commit(RestartKernel(World, t, accept))

\* restartKernel after `await kernel.restart()`.
RestartResolve(t) ==
    /\ ~Drain
    /\ tasks[t].pc = "restarting"
    /\ \E ok \in BOOLEAN :
          Commit([World EXCEPT !.t[t] = [@ EXCEPT
                     !.pc = IF ok THEN "doneTrue" ELSE "rejError",
                     !.conn = NoConn]])

\* err.response.text() settles: the rest of _handleSessionError is queued
\* and runs in a later microtask.
ErrTextSettles ==
    /\ ~Drain
    /\ env.errText > 0
    /\ Commit([World EXCEPT !.e.errText = @ - 1, !.e.errOpening = @ + 1])

\* _handleSessionError after `await err.response.text()`: open the dialog
\* and put it in _dialog, whatever _dialog holds and whether or not the
\* manager is disposed.
ErrText ==
    /\ env.errOpening > 0
    /\ Commit([World EXCEPT !.e.errOpening = @ - 1, !.e.errDialog = @ + 1,
                            !.m.dialog = ErrDialog])

\* _handleSessionError after `await dialog.launch()`.
ErrDialogClose ==
    /\ ~Drain
    /\ env.errDialog > 0
    /\ Commit([World EXCEPT !.e.errDialog = @ - 1, !.m.dialog = NoDialog])

\* _handleSessionError after an `await dialog.launch()` that dispose()
\* resolved as dismissed.
ErrDialogDismissed ==
    /\ ~BehindErrText
    /\ env.errClosing > 0
    /\ Commit([World EXCEPT !.e.errClosing = @ - 1, !.m.dialog = NoDialog])

\* -------------------------------------------------- the environment
\* The events below are those of connections the manager listens to: what
\* happens to a connection no slot is connected to (one that was returned
\* after dispose() and discarded) reaches nobody.

\* The shutdown request made by dispose() settles; a failure is logged.
DisposeShutdownSettles ==
    /\ ~Drain
    /\ env.shutdownReq = "pending"
    /\ \E ok \in BOOLEAN :
          Commit([World EXCEPT !.e.shutdownReq = IF ok THEN "ok" ELSE "failed"])

MgrReady ==
    /\ ~Drain
    /\ ~env.mgrReady
    /\ Commit([World EXCEPT !.e.mgrReady = TRUE])

\* Connection s reports a new kernel status to the manager's slot.
StatusChanged(s, status) ==
    /\ ~Drain
    /\ conns[s].state = "live"
    /\ conns[s].subscribed
    /\ conns[s].kernel # NoName
    /\ conns[s].status # status
    /\ conns[s].status # "dead"
    /\ LET w1 == [World EXCEPT !.c[s].status = status]
       IN  Commit(onStatusChanged(Delivered(w1, s), status))

\* Connection s reports a rename to the manager's slot.
PropertyChanged(s, p) ==
    /\ ~Drain
    /\ conns[s].state = "live"
    /\ conns[s].subscribed
    /\ Changes < MaxChanges
    /\ conns[s].props[p] = "a"
    /\ LET w1 == [World EXCEPT !.c[s].props[p] = "b", !.e.renames = @ + 1,
                               !.h.propEmits = {}]
       IN  Commit(onPropertyChanged(Delivered(w1, s), s, p))

\* Connection s emits connectionStatusChanged, iopubMessage or
\* unhandledMessage; the manager's slot re-emits it.
ProxyEvent(s) ==
    /\ ~Drain
    /\ conns[s].state = "live"
    /\ conns[s].subscribed
    /\ Commit(Delivered(World, s))

\* Connection s learns that its session has no kernel any more: it disposes
\* its kernel connection and says so on kernelChanged.  A connection
\* without a kernel has no kernel status.
KernelLost(s) ==
    /\ ~Drain
    /\ conns[s].state = "live"
    /\ conns[s].subscribed
    /\ conns[s].kernel # NoName
    /\ LET w1 == KernelGone([World EXCEPT !.c[s].kernel = NoName,
                                          !.c[s].status = "idle"], s)
       IN  Commit(onKernelChanged(Delivered(w1, s), conns[s].kernel, NoName))

\* The session behind connection s ends; the connection disposes itself
\* and tells the manager's slot.
Terminate(s) ==
    /\ ~Drain
    /\ conns[s].state = "live"
    /\ conns[s].subscribed
    /\ Commit(SessionDispose(World, s))

Next ==
    \/ \E t \in Tasks : CallInitialize(t)
    \/ \E t \in Tasks, name \in ChangeKernelArgs : CallChangeKernel(t, name)
    \/ \E t \in Tasks : CallSelectKernel(t)
    \/ \E t \in Tasks : CallRestart(t)
    \/ \E t \in Tasks : CallShutdown(t)
    \/ CallDispose
    \/ \E p \in AssignedPrefs : SetKernelPreference(p)
    \/ \E t \in Tasks : Resume(t)
    \/ \E t \in Tasks : InitLookup(t)
    \/ \E t \in Tasks : InitSettle(t)
    \/ \E t \in Tasks : StartResolve(t)
    \/ \E t \in Tasks : StartFallback(t)
    \/ \E t \in Tasks : DialogResult(t)
    \/ \E t \in Tasks : DialogDismissed(t)
    \/ \E t \in Tasks : ShutdownResolve(t)
    \/ \E t \in Tasks : SwapResolve(t)
    \/ \E t \in Tasks : ConfirmResult(t)
    \/ \E t \in Tasks : RestartResolve(t)
    \/ ErrTextSettles
    \/ ErrText
    \/ ErrDialogClose
    \/ ErrDialogDismissed
    \/ MgrReady
    \/ DisposeShutdownSettles
    \/ \E s \in ConnIds, status \in Statuses : StatusChanged(s, status)
    \/ \E s \in ConnIds : ProxyEvent(s)
    \/ \E s \in ConnIds : KernelLost(s)
    \/ \E s \in ConnIds : Terminate(s)

Spec == Init /\ [][Next]_vars

\* The lifecycle with the connections' renames as well.
NextRename ==
    \/ Next
    \/ \E s \in ConnIds, p \in PropNames : PropertyChanged(s, p)

\* Renames are followed on a manager constructed with one preference:
\* start nothing at initialize(), shut the session down on dispose().
InitRename ==
    /\ InitManager
    /\ kernelPreference = Pref(NoName, NoName, NoName, "false", "undef", "true", "true")
    /\ specs = Catalog
    /\ resolved = NotResolved
    /\ startOptions = NoOptions
    /\ selection = NoSelection

SpecRename == InitRename /\ [][NextRename]_vars

\* ------------------------------------------------ the kernel resolver
\* The catalogs and preferences getDefaultKernel is applied to.
AllSpecNames == <<"k1", "k2", "k3", "k4">>
SpecNames == {AllSpecNames[i] : i \in 1..MaxSpecs}
Entries == [name : SpecNames, language : Languages]

SpecSeqs ==
    {q \in UNION {[1..n -> Entries] : n \in 0..MaxSpecs} :
        \A i, j \in DOMAIN q : i # j => q[i].name # q[j].name}

Catalogs ==
    {NoSpecs} \cup
    {[present |-> TRUE, default |-> d, kernelspecs |-> q] :
        d \in {"k1", "k2"}, q \in SpecSeqs}

Tri == {"undef", "true", "false"}

ResolvePrefs ==
    {Pref(n, l, NoName, ss, cs, "undef", asd) :
        n \in {NoName, "k1", "k3", "zz"},
        l \in {NoName, "julia"} \cup Languages,
        ss \in Tri, cs \in Tri, asd \in Tri}

\* Preferences that name an existing kernel by id.
IdPrefs ==
    {Pref(n, l, "kid", ss, cs, "undef", "true") :
        n \in {NoName, "k1"}, l \in {NoName, "python"},
        ss \in Tri, cs \in Tri}

InitResolve ==
    /\ InitManager
    /\ kernelPreference \in ResolvePrefs \cup IdPrefs
    /\ specs \in Catalogs
    /\ resolved = NotResolved
    /\ startOptions = NoOptions
    /\ selection = NoSelection

\* SessionContext.getDefaultKernel({specs, sessions, preference}).
Resolve ==
    /\ resolved = NotResolved
    /\ resolved' = <<getDefaultKernel(specs, kernelPreference)>>
    /\ UNCHANGED <<m, kernelPreference, specs, startOptions, selection, conns,
                   tasks, env, hist>>

\* _startIfNecessary's lines 601-613, reached with a preference that allows
\* a start.
ChooseOptions ==
    /\ startOptions = NoOptions
    /\ kernelPreference.shouldStart # "false"
    /\ kernelPreference.canStart # "false"
    /\ startOptions' = <<StartOptions(specs, kernelPreference)>>
    /\ UNCHANGED <<m, kernelPreference, specs, resolved, selection, conns,
                   tasks, env, hist>>

NextResolve == Resolve \/ ChooseOptions

SpecResolve == InitResolve /\ [][NextResolve]_vars

\* ------------------------------------------------------ selector inputs
\* Session.IModel values of sessionManager.running(): one on the kernel a
\* preference names by id, one on another kernel, one on a kernel whose
\* spec the catalog does not list, one without a kernel.  Two have a name
\* and two have none; two are in a directory and two are not.
SessionPool ==
    << [path |-> "dir/b.ipynb", name |-> NoName,
        kernel |-> [id |-> "kid", name |-> "k1"]],
       [path |-> "a.ipynb", name |-> "notebook one",
        kernel |-> [id |-> "kx", name |-> "k2"]],
       [path |-> "c.ipynb", name |-> NoName,
        kernel |-> [id |-> "ky", name |-> "zz"]],
       [path |-> "dir/d.ipynb", name |-> "notebook two",
        kernel |-> NoKernel] >>

\* IKernelSearch.sessions: absent, or any sub-list of the pool.
SessionLists ==
    {<< >>} \cup
    {<<SelectSeq(SessionPool, LAMBDA x : x \in S)>> : S \in SUBSET Range(SessionPool)}

\* SessionContext.populateKernelSelect(node, {specs, sessions, preference}).
PopulateKernelSelect ==
    /\ selection = NoSelection
    /\ \E ss \in SessionLists :
          selection' = <<[sessions |-> ss,
                          node |-> populateKernelSelect(specs, kernelPreference, ss)]>>
    /\ UNCHANGED <<m, kernelPreference, specs, resolved, startOptions, conns,
                   tasks, env, hist>>

NextSelect == PopulateKernelSelect

SpecSelect == InitResolve /\ [][NextSelect]_vars

\* ============================================================ claims
\* The callers of initialize() that called before _ready was resolved and
\* have since continued.
EarlyCallers == {t \in Tasks : tasks[t].obs \notin {Unset, Late, AfterFailure}}

\* The connections the manager has attached and that are not disposed.
LiveAttached == {s \in ConnIds : conns[s].state = "live" /\ conns[s].attached}

\* The pcs of an explicit changeKernel / selectKernel / restart that has
\* done something of its own.
ExplicitActing ==
    {"startNew", "swap", "dialog", "shutdown", "confirm", "restarting",
     "done", "doneTrue", "doneFalse"}

\* C1: concurrent initialize() calls made before the first has resolved run
\* the start-up sequence once, create at most one remote session between
\* them, and all see the same connection when their await continues (a
\* caller that continues after a client has called dispose() sees none).
C1_InitializeCoalesced ==
    /\ hist.initRuns <= 1
    /\ hist.initCreated <= 1
    /\ \A t, u \in EarlyCallers :
          \/ tasks[t].obs = tasks[u].obs
          \/ m.isDisposed /\ <<NoConn>> \in {tasks[t].obs, tasks[u].obs}

\* Two callers, one session created, both see it.
C1_Witness ==
    /\ hist.initCreated = 1
    /\ \E t, u \in EarlyCallers :
          /\ t # u
          /\ tasks[t].obs # <<NoConn>>
          /\ tasks[t].kind = "initialize" /\ tasks[u].kind = "initialize"
          /\ tasks[t].pc = "done" /\ tasks[u].pc = "done"

\* C2: once initialize() has finished, by returning or by rejecting (the
\* attach-failure path), the manager is Ready and `ready` has been settled,
\* exactly once.
C2_ReadySettledOnEveryPath ==
    /\ hist.readySettles <= 1
    /\ \A t \in Tasks :
          (tasks[t].ctx = "init" /\ tasks[t].pc \in Rejected)
              => (m.isReady /\ m.ready = "resolved")

\* C3: on a manager that is not disposed, a changeKernel() or selectKernel()
\* call made after a start or attach failure is never left waiting for
\* initialize() with nothing to release it: `ready` is resolved, or the
\* start-up sequence is still running.
C3_LaterCallNotBlocked ==
    \A t \in Tasks :
        (/\ tasks[t].kind \in {"changeKernel", "selectKernel"}
         /\ tasks[t].pc = "awaitReady"
         /\ tasks[t].obs = AfterFailure
         /\ ~m.isDisposed)
            => \/ m.ready = "resolved"
               \/ \E u \in Tasks : /\ tasks[u].ctx = "init"
                                   /\ tasks[u].pc \notin Rejected

\* C4: no event of a connection other than the current one reaches the
\* manager, only the current connection is subscribed, and every attach
\* emits kernelChanged with oldValue null.
C4_NoStaleEvents ==
    /\ ~hist.stale
    /\ \A s \in ConnIds : conns[s].subscribed => s = m.session
    /\ hist.attachOld = NoName

\* A live connection was replaced by another, which is current.
C4_Witness ==
    /\ hist.replaced
    /\ m.session # NoConn
    /\ conns[m.session].subscribed
    /\ \E s \in ConnIds : s # m.session /\ conns[s].state = "disposed"

\* C5: at most one attached connection is live, and it is the current one.
C5_OneLiveConnection ==
    /\ Cardinality(LiveAttached) <= 1
    /\ \A s \in LiveAttached : s = m.session

\* Two overlapping operations have each attached a connection.
C5_Witness ==
    /\ hist.replaced
    /\ LiveAttached = {m.session}
    /\ \E t, u \in Tasks :
          /\ t # u
          /\ tasks[t].kind = "changeKernel" /\ tasks[t].pc = "done"
          /\ tasks[u].kind = "changeKernel" /\ tasks[u].pc = "done"

\* C6: the busy lease is held exactly when there is a current connection
\* whose last reported status is 'busy'.
C6_BusyLeaseIffBusy ==
    m.busyDisposable <=>
        (m.session # NoConn /\ conns[m.session].status = "busy")

\* C7: dispose() emits `disposed` once and releases a held lease once,
\* however often it is called, and on a disposed manager it changes nothing.
C7_DisposeIdempotent ==
    /\ hist.disposedEmits <= 1
    /\ hist.disposeReleases <= 1
    /\ m.isDisposed =>
          /\ hist.disposedEmits = 1
          /\ hist.disposeReleases = (IF hist.heldAtDispose THEN 1 ELSE 0)
          /\ ~m.busyDisposable
          /\ \A how \in {"reject", "dismiss"} : DisposeBody(World, how) = World

\* dispose() was called twice on a manager holding the lease.
C7_Witness ==
    /\ hist.disposeCalls = 2
    /\ hist.heldAtDispose
    /\ hist.disposeReleases = 1
    /\ hist.disposedEmits = 1

\* C8: a connection that startNew / connectTo returns after dispose() is
\* never attached nor subscribed to, and a disposed manager has no session.
C8_LateConnectionDiscarded ==
    /\ m.isDisposed => m.session = NoConn
    /\ \A s \in ConnIds :
          conns[s].late =>
              /\ ~conns[s].attached
              /\ ~conns[s].subscribed
              /\ m.session # s

\* A changeKernel()'s startNew returned a connection after dispose().
C8_Witness ==
    /\ m.isDisposed
    /\ m.isReady
    /\ \E s \in ConnIds : conns[s].late /\ conns[s].state = "live"
    /\ \E t \in Tasks : tasks[t].kind = "changeKernel" /\ tasks[t].pc = "rejDisposed"

\* C9: once the manager is disposed, no step changes readyState, path, name,
\* type, previousKernelName or the current connection, and the pending
\* dialog and the busy lease can only be let go.
C9_NoMutationAfterDispose ==
    [][m.isDisposed =>
          /\ m'.initializing = m.initializing
          /\ m'.isReady = m.isReady
          /\ m'.ready = m.ready
          /\ m'.props = m.props
          /\ m'.prevKernelName = m.prevKernelName
          /\ m'.session = m.session
          /\ m'.dialog \in {m.dialog, NoDialog}
          /\ (m'.busyDisposable => m.busyDisposable)]_vars

\* C10: an explicit changeKernel(), selectKernel() or restart() does nothing
\* of its own before the manager is Ready.
C10_ExplicitAfterInitialize ==
    \A t \in Tasks :
        (/\ tasks[t].kind \in {"changeKernel", "selectKernel", "restart", "restartCK"}
         /\ tasks[t].ctx = "explicit"
         /\ tasks[t].pc \in ExplicitActing)
            => m.isReady

\* A changeKernel() issued while initialize() was running has its own
\* startNew in flight.
C10_Witness ==
    \E t \in Tasks :
        /\ tasks[t].kind = "changeKernel"
        /\ tasks[t].ctx = "explicit"
        /\ tasks[t].pc = "startNew"
        /\ tasks[t].obs # Late
        /\ hist.initRuns = 1
        /\ \E u \in Tasks : u # t /\ tasks[u].kind = "initialize"

\* C11: a restart() that asked for confirmation resolves true only when the
\* user accepted, the kernel was still there and kernel.restart() completed;
\* it resolves false when the user declined or the kernel was disposed when
\* the confirmation returned; kernel.restart() is requested only after an
\* acceptance with the kernel still there, and then the call ends true or
\* with the restart's error.
C11_RestartConfirmed ==
    \A t \in Tasks :
        tasks[t].kind = "restart" =>
            /\ tasks[t].pc = "restarting" => tasks[t].answer = "accept"
            /\ tasks[t].pc = "doneTrue" => tasks[t].answer = "accept"
            /\ tasks[t].pc = "doneFalse" =>
                  tasks[t].answer \in {"decline", "acceptGone", "declineGone"}
            /\ tasks[t].answer = "accept" =>
                  tasks[t].pc \in {"restarting", "doneTrue", "rejError"}
            /\ tasks[t].answer \in Answers \ {"accept"} =>
                  tasks[t].pc = "doneFalse"

\* One restart() was accepted and restarted the kernel; another was accepted
\* after its kernel had been disposed and resolved false.
C11_Witness ==
    \E t, u \in Tasks :
        /\ tasks[t].kind = "restart" /\ tasks[t].pc = "doneTrue"
        /\ tasks[t].answer = "accept"
        /\ tasks[u].kind = "restart" /\ tasks[u].pc = "doneFalse"
        /\ tasks[u].answer = "acceptGone"

\* C12: a restart() that found no live kernel and a recorded previous kernel
\* name goes on to start a new session with that name: it is waiting to, has
\* asked startNew for that name, has resolved true, or has failed with
\* startNew's own error (or with Disposed on a disposed manager).
C12_RestartStartsPrevious ==
    \A t \in Tasks :
        tasks[t].kind = "restartCK" =>
            /\ tasks[t].pc \in {"awaitReady", "startNew", "doneTrue", "rejError",
                                "rejDisposed"}
            /\ tasks[t].pc = "rejDisposed" => m.isDisposed
            /\ tasks[t].pc = "startNew" => tasks[t].opt = tasks[t].arg

\* The pcs of a call that has returned or thrown.
Finished == Rejected \cup {"done", "doneTrue", "doneFalse"}

\* C13: a restart() that continues on a manager that is not disposed, with
\* no live kernel and no previous kernel name, throws 'No kernel to restart'
\* and changes nothing else: not the manager, not a connection, not the
\* collaborators, not another call; and nothing else throws that error.
C13_NoKernelToRestart ==
    \A t \in Tasks :
        /\ tasks[t].pc = "rejNoKernel" => tasks[t].kind = "restart"
        /\ (/\ tasks[t].kind = "restart"
            /\ tasks[t].pc = "awaitReady"
            /\ AwaitInitialize(World)
            /\ ~m.isDisposed
            /\ (m.session = NoConn \/ conns[m.session].kernel = NoName)
            /\ m.prevKernelName = NoName)
               => LET w == Continue(World, t)
                  IN  /\ w.t[t].pc = "rejNoKernel"
                      /\ w.m = m /\ w.c = conns /\ w.e = env
                      /\ \A u \in Tasks \ {t} : w.t[u] = tasks[u]

\* A restart() has thrown 'No kernel to restart' on a ready manager without
\* a session.
C13_Witness ==
    \E t \in Tasks :
        /\ tasks[t].kind = "restart" /\ tasks[t].pc = "rejNoKernel"
        /\ ~m.isDisposed /\ m.isReady
        /\ m.session = NoConn /\ m.prevKernelName = NoName

\* C14: where no kernel was ever started (no connection was ever made), a
\* restart() that has finished on the ready manager has resolved false.
C14_RestartNoOpFalse ==
    \A t \in Tasks :
        (/\ tasks[t].kind = "restart"
         /\ env.nextConn = 1
         /\ m.isReady /\ ~m.isDisposed
         /\ tasks[t].pc \in Finished)
            => tasks[t].pc = "doneFalse"

\* C15: once the manager is disposed, a changeKernel() or restart() call that
\* has not yet got past its `await this.initialize()` (it was made after
\* dispose(), or dispose() ran while it was waiting) takes no step but to
\* go on waiting or to fail with the disposed error: it never starts, swaps
\* or restarts a kernel, never opens a dialog, and never ends otherwise.
C15_DisposedCallsFail ==
    [][\A t \in Tasks :
          (/\ m'.isDisposed
           /\ tasks'[t].kind \in {"changeKernel", "restart", "restartCK"}
           /\ (tasks[t].ctx = "init" \/ tasks[t].pc \in {"idle", "awaitReady"})
           /\ tasks'[t].pc # tasks[t].pc)
              => tasks'[t].pc \in {"awaitMgr", "awaitReady", "rejDisposed"}]_vars

\* C16: every failing connectTo, startNew or in-place swap is handed to
\* _handleSessionError in the step in which it fails, and a start that fails
\* in initialize()'s start-up makes that call reject rather than go on.
C16_FailuresReportedAndRethrown ==
    [][\A t \in Tasks :
          /\ (/\ tasks[t].pc \in {"awaitMgr", "startAuto", "startNew", "swap"}
              /\ tasks'[t].pc = "rejError")
                 => env'.errText = env.errText + 1
          /\ (tasks[t].pc = "startAuto" /\ tasks'[t].pc # "startAuto")
                 => tasks'[t].pc \in {"settle"} \cup Rejected]_vars

\* The preference forbids starting a kernel.
PrefForbidsStart ==
    \/ kernelPreference.shouldStart = "false"
    \/ kernelPreference.canStart = "false"

\* C17: when the start-up sequence goes on from its look-up under a
\* preference with shouldStart === false or canStart === false, it starts
\* no session and opens no selection dialog: the call running it goes
\* straight on to make the manager Ready, or rejects on a failed attach;
\* and where the look-up finds no running session the manager becomes Ready
\* without a connection.
C17_ForbiddenPreference ==
    [][\A t \in Tasks :
          (PrefForbidsStart /\ tasks[t].pc = "awaitMgr") =>
              /\ tasks'[t].pc \in {"awaitMgr", "settle"} \cup Rejected
              /\ hist'.initCreated = hist.initCreated
              /\ m'.dialog = m.dialog \/ m'.isDisposed # m.isDisposed
              /\ LET w == SettleReady(StartIfNecessary(World, t), t)
                 IN  /\ StartIfNecessary(World, t).t[t].pc = "settle"
                     /\ w.m.isReady /\ w.m.ready = "resolved"
                     /\ w.m.session = m.session /\ w.m.dialog = m.dialog
                     /\ w.c = conns /\ w.e = env]_vars

\* initialize() has completed under canStart === false: Ready, no
\* connection was ever made.
C17_Witness ==
    /\ kernelPreference.canStart = "false"
    /\ env.prefSets = 0
    /\ m.isReady /\ m.session = NoConn /\ env.nextConn = 1
    /\ \E t \in Tasks : tasks[t].kind = "initialize" /\ tasks[t].pc = "done"

\* C18: dispose() asks the current connection to shut down exactly when
\* there is one and shutdownOnDispose is set, asks while the connection is
\* still live, and in every case leaves the manager disposed, without a
\* session and with `disposed` emitted once, whether the request then
\* succeeds or fails.
C18_ShutdownOnDispose ==
    /\ env.shutdownReq # "refused"
    /\ env.shutdownReq # "none" => m.isDisposed
    /\ m.isDisposed => m.session = NoConn /\ hist.disposedEmits = 1
    /\ ~m.isDisposed =>
          \A how \in {"reject", "dismiss"} :
              LET w == DisposeBody(World, how)
              IN  /\ w.m.isDisposed /\ w.m.session = NoConn
                  /\ w.h.disposedEmits = 1
                  /\ (w.e.shutdownReq = "pending") <=>
                        (/\ m.session # NoConn
                         /\ kernelPreference.shutdownOnDispose = "true")
                  /\ (w.e.shutdownReq = "none") <=>
                        ~(/\ m.session # NoConn
                          /\ kernelPreference.shutdownOnDispose = "true")

\* dispose() asked for the shutdown, the request failed, and the manager is
\* disposed all the same.
C18_Witness ==
    /\ m.isDisposed /\ m.session = NoConn
    /\ env.shutdownReq = "failed"
    /\ hist.disposedEmits = 1
    /\ \E s \in ConnIds : conns[s].state = "disposed"

\* C19: getDefaultKernel returns null whenever the catalog is absent or the
\* preference has shouldStart === false or canStart === false, whatever the
\* name, the language, autoStartDefault and the catalog.
C19_NullWhenForbidden ==
    (/\ resolved # NotResolved
     /\ \/ ~specs.present
        \/ kernelPreference.shouldStart = "false"
        \/ kernelPreference.canStart = "false")
        => resolved = <<NoName>>

\* canStart === false with a name that is in the catalog and a default that
\* would be taken: null.
C19_Witness ==
    /\ resolved = <<NoName>>
    /\ kernelPreference.canStart = "false"
    /\ kernelPreference.shouldStart = "true"
    /\ kernelPreference.autoStartDefault = "true"
    /\ kernelPreference.name = "k1"
    /\ specs.present
    /\ \E i \in DOMAIN specs.kernelspecs : specs.kernelspecs[i].name = "k1"

\* The preference is startable and has a language and no name.
LanguageOnly ==
    /\ specs.present
    /\ kernelPreference.shouldStart # "false"
    /\ kernelPreference.canStart # "false"
    /\ kernelPreference.name = NoName
    /\ kernelPreference.language # NoName

\* The positions of the catalog entries with the preferred language.
MatchingEntries ==
    {i \in DOMAIN specs.kernelspecs :
        specs.kernelspecs[i].language = kernelPreference.language}

\* C20: for a startable preference with only a language, getDefaultKernel
\* returns the one entry of that language when there is exactly one, and
\* otherwise the fallback (the catalog default when autoStartDefault is
\* true, else null), in whatever order the entries are enumerated.
C20_LanguageOnly ==
    (resolved # NotResolved /\ LanguageOnly) =>
        IF Cardinality(MatchingEntries) = 1
        THEN \E i \in MatchingEntries : resolved = <<specs.kernelspecs[i].name>>
        ELSE resolved = <<IF kernelPreference.autoStartDefault = "true"
                          THEN specs.default ELSE NoName>>

\* Two entries of the language, enumerated after another entry: the fallback
\* is returned, and it is not one of the two.
C20_Witness ==
    /\ LanguageOnly
    /\ Cardinality(MatchingEntries) = 2
    /\ Len(specs.kernelspecs) = 3
    /\ 1 \notin MatchingEntries
    /\ kernelPreference.autoStartDefault = "true"
    /\ resolved = <<specs.default>>
    /\ \A i \in MatchingEntries : specs.kernelspecs[i].name # specs.default

\* The catalog is present and the preference does not forbid a start.
Startable ==
    /\ specs.present
    /\ kernelPreference.shouldStart # "false"
    /\ kernelPreference.canStart # "false"

\* C21: with autoStartDefault left unset the fallback is the catalog default:
\* a preference with neither name nor language, and a preference with only
\* a language that zero or several entries have, resolve to specs.default.
C21_AutoStartDefaultsTrue ==
    (/\ resolved # NotResolved
     /\ Startable
     /\ kernelPreference.autoStartDefault = "undef"
     /\ kernelPreference.name = NoName
     /\ (kernelPreference.language # NoName => Cardinality(MatchingEntries) # 1))
        => resolved = <<specs.default>>

\* The preferred name is the name of a catalog entry.
NameMatches ==
    \E i \in DOMAIN specs.kernelspecs :
        specs.kernelspecs[i].name = kernelPreference.name

\* C22: id, then name, then language, then the default.  A set
\* preference.id is the identity the start-up uses, whatever the name and
\* language; without an id the start-up uses getDefaultKernel's answer;
\* getDefaultKernel returns the preferred name when an entry has it,
\* whatever the language; else the entry of the preferred language when
\* exactly one has it; else the fallback.
C22_Precedence ==
    /\ (startOptions # NoOptions /\ kernelPreference.id # NoName)
          => startOptions = <<ById>>
    /\ (startOptions # NoOptions /\ kernelPreference.id = NoName
                            /\ resolved # NotResolved)
          => startOptions = resolved
    /\ (resolved # NotResolved /\ Startable) =>
          IF NameMatches
          THEN resolved = <<kernelPreference.name>>
          ELSE IF /\ kernelPreference.language # NoName
                  /\ Cardinality(MatchingEntries) = 1
          THEN \E i \in MatchingEntries : resolved = <<specs.kernelspecs[i].name>>
          ELSE resolved = <<IF kernelPreference.autoStartDefault = "true"
                            THEN specs.default ELSE NoName>>

\* An id, a name that an entry has and a language that exactly one other
\* entry has: the start-up takes the id, getDefaultKernel the name.
C22_Witness ==
    /\ Startable
    /\ kernelPreference.id # NoName
    /\ startOptions = <<ById>>
    /\ NameMatches
    /\ resolved = <<kernelPreference.name>>
    /\ Cardinality(MatchingEntries) = 1
    /\ \A i \in MatchingEntries :
          specs.kernelspecs[i].name # kernelPreference.name
\* The options of the filled node that are the no-kernel marker.
NoKernelMarkers ==
    {i \in DOMAIN selection[1].node.options :
        selection[1].node.options[i].value.kind = "null"}

\* C23: the filled list has the no-kernel marker exactly once, and with
\* canStart false it is that marker alone, in a disabled node, whatever the
\* catalog and the running sessions.
C23_NoKernelMarkerOnce ==
    selection # NoSelection =>
        /\ Cardinality(NoKernelMarkers) = 1
        /\ kernelPreference.canStart = "false" =>
              /\ selection[1].node.options = <<optionForNone>>
              /\ selection[1].node.disabled

C23_Witness ==
    /\ selection # NoSelection
    /\ kernelPreference.canStart = "false"
    /\ Len(specs.kernelspecs) >= 2
    /\ selection[1].sessions # << >>
    /\ Len(selection[1].sessions[1]) >= 2
    /\ \E i, j \in DOMAIN selection[1].sessions[1] :
          /\ selection[1].sessions[1][i].name # NoName
          /\ basename(selection[1].sessions[1][j].path)
                # selection[1].sessions[1][j].path
    /\ selection[1].node.disabled

\* C24: every step that changes the manager's current connection (attach,
\* replace, removal by termination or shutdown) emits sessionChanged.
C24_SessionChangedEmitted ==
    [][m'.session # m.session =>
          hist'.sessionChangedEmits = hist.sessionChangedEmits + 1]_vars

\* The current connection is live and has a kernel that is not dead.
LiveKernel ==
    /\ m.session # NoConn
    /\ conns[m.session].kernel # NoName
    /\ conns[m.session].status # "dead"

\* C25: a changeKernel() that continues on a ready manager that is not
\* disposed asks the current connection for an in-place swap exactly when
\* that connection has a kernel that is not dead, and in every other case
\* (no connection, a dead kernel, no kernel) asks startNew for a new session
\* with the requested identity.
C25_SwapOrStart ==
    \A t \in Tasks :
        (/\ tasks[t].kind = "changeKernel"
         /\ tasks[t].pc = "awaitReady"
         /\ AwaitInitialize(World)
         /\ ~m.isDisposed)
            => LET w == Continue(World, t)
               IN  IF LiveKernel
                   THEN w.t[t].pc = "swap" /\ w.t[t].conn = m.session
                   ELSE w.t[t].pc = "startNew" /\ w.t[t].opt = tasks[t].arg

\* A selectKernel() call, past its initialize(), whose dialog is open on a
\* manager that is not disposed.
Selecting(t) ==
    /\ tasks[t].kind = "selectKernel"
    /\ tasks[t].ctx = "explicit"
    /\ tasks[t].pc = "dialog"
    /\ ~m.isDisposed

\* C26: when the dialog of a selectKernel() is answered: accept with no
\* kernel shuts down the current connection if there is one and does
\* nothing otherwise; accept with a kernel identity changes the kernel to it
\* (an in-place swap or a new session with that identity); cancel makes no
\* remote call and leaves the connection, previousKernelName and readyState
\* as they were.
C26_SelectKernelResult ==
    \A t \in Tasks :
        Selecting(t) =>
            LET none == AfterDialog(World, t, TRUE, NoName)
                cancel == AfterDialog(World, t, FALSE, NoName)
                Quiet(w) ==
                    /\ w.t[t].pc = "done"
                    /\ w.c = conns /\ w.e = env
                    /\ w.m.session = m.session
                    /\ w.m.prevKernelName = m.prevKernelName
                    /\ w.m.isReady = m.isReady /\ w.m.ready = m.ready
                    /\ w.m.initializing = m.initializing
            IN  /\ IF m.session # NoConn
                   THEN none.t[t].pc = "shutdown" /\ none.t[t].conn = m.session
                   ELSE Quiet(none)
                /\ \A value \in tasks[t].offer \ {NoName} :
                      LET chosen == AfterDialog(World, t, TRUE, value)
                      IN  /\ chosen.t[t].pc \in {"swap", "startNew"}
                          /\ chosen.t[t].opt = value
                /\ Quiet(cancel)

\* C27: previousKernelName is the name of the kernel last run in the
\* session: a step that attaches a connection with a kernel, or that changes
\* the kernel of the current connection in place, sets it to that kernel's
\* name, and a step that attaches a connection without a kernel leaves it
\* as it was.
C27_PreviousKernelName ==
    [][LET s == m'.session
       IN  /\ (s # m.session /\ s # NoConn /\ conns'[s].kernel # NoName)
                 => m'.prevKernelName = conns'[s].kernel
           /\ (s = m.session /\ s # NoConn /\ conns'[s].kernel # NoName
                  /\ conns'[s].kernel # conns[s].kernel)
                 => m'.prevKernelName = conns'[s].kernel
           /\ (s # m.session /\ s # NoConn /\ conns'[s].kernel = NoName)
                 => m'.prevKernelName = m.prevKernelName]_vars

\* C28: a step that attaches a connection, or in which the current
\* connection reports a property change, leaves the cached path, name and
\* type equal to the connection's; and an attach emits propertyChanged for
\* exactly the properties whose connection value differed from the cached
\* one.
C28_PropsFollowConnection ==
    [][LET s == m'.session
       IN  /\ (s # NoConn /\ (s # m.session \/ conns'[s].props # conns[s].props))
                 => m'.props = conns'[s].props
           /\ (s # NoConn /\ s # m.session)
                 => hist'.propEmits =
                       {p \in PropNames : conns'[s].props[p] # m.props[p]}]_vars

\* The connection reported a new name while a start was under way; the new
\* session came back under the name it was asked for and was attached: the
\* cached name is the old one again and propertyChanged was emitted for it.
C28_Witness ==
    /\ m.session # NoConn
    /\ m.props = conns[m.session].props
    /\ m.props["name"] = "a"
    /\ env.renames = 1
    /\ hist.replaced
    /\ hist.propEmits = {"name"}

====
